---- MODULE Spec2Model ----
(***************************************************************************)
(* Alien Invaders (alien_invaders_terminal.py): the game loop of play()    *)
(* as a state machine.  One action per section of the loop body, in the    *)
(* order the code runs them; pc is the position of the loop.               *)
(***************************************************************************)
EXTENDS Integers, Sequences, FiniteSets, TLC

\* The screen: win.getmaxyx() returns (Height, Width).  A wave of 5 x 11
\* aliens spawns strictly inside the margins of a screen 48 wide, and above
\* the player's row of a screen 13 or more high.
Width == 48
Height == 14

\* ---------------------------------------------------------------- bounds
\* Number of loop iterations explored.
MaxIter == 4
\* random.choice(state.aliens) is explored for the last MaxShooters aliens.
MaxShooters == 2
\* Levels for which the march interval is explored.
MaxLevel == 12
\* Levels through which a run without end of iterations is followed.
LiveLevels == 1

\* ------------------------------------------------------ program constants
Rows == 5
Cols == 11
ColGap == 4
RowGap == 2
TopRow == 2
MaxShots == 3
KillScore == 10
NumFrames == 4
AnimMs == 300
BaseSpeedMs == 300
StepSpeedMs == 30
MinSpeedMs == 50
SleepMs == 10

\* An elapsed time longer than every timer of the loop.
LongMs == 310

\* Keys returned by stdscr.getch(): "none" is the no-key value -1, "other"
\* any key the loop does not test for.
Keys == {"q", "Q", "KEY_LEFT", "KEY_RIGHT", " ", "z", "none", "other"}

\* Time that passes from one reading of time.time() at the loop top to the
\* next: at least the sleep that ends the iteration.
Dts == {SleepMs, LongMs}

\* pc            position in play(): the loop test, a section of the loop
\*               body, the game over screen ("over"), returned ("done")
\* iter          number of iterations started
\* key           the local key of play()
\* player        state.player (x, y)
\* aliens        state.aliens, a list of (x, y, frame)
\* player_lasers state.player_lasers, a list of (x, y, dir)
\* alien_lasers  state.alien_lasers, a list of (x, y, dir)
\* alien_dir, score, level, game_over   the fields of state
\* move_age      now - last_move in milliseconds
\* anim_age      now - last_anim in milliseconds
\* nodelay       the input mode of stdscr (TRUE: getch does not block)
\* end_msg       the game over message is on the screen
\* edge_hit      the local edge_hit of play(): the result of the border test
\*               of the last march (FALSE while no march has run)
VARIABLES pc, iter, key, player, aliens, player_lasers, alien_lasers,
          alien_dir, score, level, game_over, move_age, anim_age, nodelay,
          end_msg, edge_hit

vars == <<pc, iter, key, player, aliens, player_lasers, alien_lasers,
          alien_dir, score, level, game_over, move_age, anim_age, nodelay,
          end_msg, edge_hit>>

\* ------------------------------------------------------------- helpers
Min(a, b) == IF a < b THEN a ELSE b
Max(a, b) == IF a > b THEN a ELSE b

\* Laser(x, y, direction)
Laser(x, y, direction) == [x |-> x, y |-> y, dir |-> direction]

\* Laser.update: self.y += self.dir
LaserUpdate(l) == [l EXCEPT !.y = l.y + l.dir]

\* Alien(x, y): frame 0
Alien(x, y) == [x |-> x, y |-> y, frame |-> 0]

\* Alien.animate
Animate(a) == [a EXCEPT !.frame = (a.frame + 1) % NumFrames]

\* Player.move without the clamp; C1 must fail for it.
MoveUnclamped(x, dx) == x + dx

\* Player.move: self.x = max(1, min(self.max_x - 2, self.x + dx))
Move(x, dx) == Max(1, Min(Width - 2, x + dx))

\* A grid that starts at the left border instead of being centred; C14 must
\* fail for it.
InitAliensNoMargin(old) ==
    LET cell(i) == Alien(((i - 1) % Cols) * ColGap,
                         TopRow + ((i - 1) \div Cols) * RowGap)
    IN  old \o [i \in 1..(Rows * Cols) |-> cell(i)]

\* GameState.init_aliens appends the grid row by row to the given list.
InitAliens(old) ==
    LET x_margin == (Width - Cols * ColGap) \div 2
        cell(i) == Alien(x_margin + ((i - 1) % Cols) * ColGap,
                         TopRow + ((i - 1) \div Cols) * RowGap)
    IN  old \o [i \in 1..(Rows * Cols) |-> cell(i)]

\* The interval without its floor; C13 must fail for it.
AlienSpeedNoFloor(lv) == BaseSpeedMs - (lv - 1) * StepSpeedMs

\* GameState.alien_speed, in milliseconds.
AlienSpeed(lv) == Max(MinSpeedMs, BaseSpeedMs - (lv - 1) * StepSpeedMs)

\* move_age and anim_age are now - last_move and now - last_anim, for the
\* clock reading at the top of the loop; they are kept up to the longest
\* elapsed time any timer distinguishes.
Age(a, dt) == Min(LongMs, a + dt)

MapSeq(s, Op(_)) == [i \in 1..Len(s) |-> Op(s[i])]

\* ------------------------------------------------------------------ Init
\* State after GameState(stdscr) and the two timer readings (lines 111-118).
Init ==
    /\ pc = "while"
    /\ iter = 0
    /\ key = "none"
    /\ player = [x |-> Width \div 2, y |-> Height - 2]
    /\ aliens = InitAliens(<< >>)
    /\ player_lasers = << >>
    /\ alien_lasers = << >>
    /\ alien_dir = 1
    /\ score = 0
    /\ level = 1
    /\ game_over = FALSE
    /\ move_age = 0
    /\ anim_age = 0
    /\ nodelay = TRUE
    /\ end_msg = FALSE
    /\ edge_hit = FALSE

\* --------------------------------------------------------------- actions
\* A loop that does not test state.game_over; C3 must fail for it.
WhileUntested ==
    /\ pc = "while"
    /\ iter < MaxIter
    /\ iter' = iter + 1
    /\ pc' = "input"
    /\ UNCHANGED <<key, player, aliens, player_lasers, alien_lasers,
                   alien_dir, score, level, game_over, move_age, anim_age,
                   nodelay, end_msg, edge_hit>>

\* while not state.game_over: now = time.time()
While ==
    /\ pc = "while"
    /\ IF game_over
       THEN /\ pc' = "over"
            /\ UNCHANGED iter
       ELSE /\ iter < MaxIter
            /\ iter' = iter + 1
            /\ pc' = "input"
    /\ UNCHANGED <<key, player, aliens, player_lasers, alien_lasers,
                   alien_dir, score, level, game_over, move_age, anim_age,
                   nodelay, end_msg, edge_hit>>

\* A chain of tests that ends in an else branch: every key that is not the
\* left key moves the player right; C17 must fail for it.
KeyPlayerElseRight(k, p) ==
    IF k = "KEY_LEFT" THEN [p EXCEPT !.x = Move(p.x, -1)]
    ELSE [p EXCEPT !.x = Move(p.x, 1)]

\* The effect of one key on the player and the player's lasers.
KeyPlayer(k, p) ==
    IF k = "KEY_LEFT" THEN [p EXCEPT !.x = Move(p.x, -1)]
    ELSE IF k = "KEY_RIGHT" THEN [p EXCEPT !.x = Move(p.x, 1)]
    ELSE p

\* Firing without the limit of shots on screen; C2 must fail for it.
KeyLasersNoLimit(k, p, ls) ==
    IF k \in {" ", "z"}
    THEN Append(ls, Laser(p.x, p.y - 1, -1))
    ELSE ls

KeyLasers(k, p, ls) ==
    IF k \in {" ", "z"} /\ Len(ls) < MaxShots
    THEN Append(ls, Laser(p.x, p.y - 1, -1))
    ELSE ls

\* key = stdscr.getch() and the input section.
Input ==
    /\ pc = "input"
    /\ \E k \in Keys :
         /\ key' = k
         /\ IF k \in {"q", "Q"}
            THEN /\ pc' = "over"
                 /\ UNCHANGED <<player, player_lasers>>
            ELSE /\ player' = KeyPlayer(k, player)
                 /\ player_lasers' = KeyLasers(k, player, player_lasers)
                 /\ pc' = "march"
    /\ UNCHANGED <<iter, aliens, alien_lasers, alien_dir, score, level,
                   game_over, move_age, anim_age, nodelay, end_msg, edge_hit>>

\* alien.x += state.alien_dir for every alien
Shift(as, d) == MapSeq(as, LAMBDA a : [a EXCEPT !.x = a.x + d])

\* A border test that looks at the right margin only; C19 must fail for it.
EdgeHitRightOnly(as) == \E i \in 1..Len(as) : as[i].x >= Width - 2

\* The border test with strict comparisons; C8 must fail for it.
EdgeHitStrict(as) == \E i \in 1..Len(as) : as[i].x < 1 \/ as[i].x > Width - 2

\* edge_hit after the whole pass over the moved aliens
EdgeHit(as) == \E i \in 1..Len(as) : as[i].x <= 1 \/ as[i].x >= Width - 2

\* An edge hit that turns the aliens round without moving them down; C20
\* must fail for it.
DescendNot(as) == as

\* alien.y += 1 for every alien
Descend(as) == MapSeq(as, LAMBDA a : [a EXCEPT !.y = a.y + 1])

\* Only the first alien is tested against the player's row; C5 must fail
\* for it.
LandedFirst(as, p) == as # << >> /\ as[1].y >= p.y

\* some alien has reached the player's row
Landed(as, p) == \E i \in 1..Len(as) : as[i].y >= p.y

\* Update aliens movement.
March ==
    /\ pc = "march"
    /\ IF move_age > AlienSpeed(level)
       THEN LET moved == Shift(aliens, alien_dir)
            IN  /\ edge_hit' = EdgeHit(moved)
                /\ IF EdgeHit(moved)
                   THEN /\ alien_dir' = alien_dir * (-1)
                        /\ aliens' = Descend(moved)
                        /\ game_over' = (game_over \/ Landed(Descend(moved), player))
                   ELSE /\ aliens' = moved
                        /\ UNCHANGED <<alien_dir, game_over>>
                /\ move_age' = 0
       ELSE UNCHANGED <<aliens, alien_dir, game_over, move_age, edge_hit>>
    /\ pc' = "anim"
    /\ UNCHANGED <<key, iter, player, player_lasers, alien_lasers, score, level,
                   anim_age, nodelay, end_msg>>

\* Alien animation.
Anim ==
    /\ pc = "anim"
    /\ IF anim_age > AnimMs
       THEN /\ aliens' = MapSeq(aliens, Animate)
            /\ anim_age' = 0
       ELSE UNCHANGED <<aliens, anim_age>>
    /\ pc' = "fire"
    /\ UNCHANGED <<key, iter, player, player_lasers, alien_lasers, alien_dir,
                   score, level, game_over, move_age, nodelay, end_msg, edge_hit>>

\* The aliens random.choice may return, as indices of the list.
Shooters(as) == {i \in 1..Len(as) : i > Len(as) - MaxShooters}

\* Aliens fire randomly.
Fire ==
    /\ pc = "fire"
    /\ \/ UNCHANGED alien_lasers
       \/ /\ aliens # << >>
          /\ \E i \in Shooters(aliens) :
               alien_lasers' =
                   Append(alien_lasers, Laser(aliens[i].x, aliens[i].y + 1, 1))
    /\ pc' = "lasers"
    /\ UNCHANGED <<key, iter, player, aliens, player_lasers, alien_dir, score,
                   level, game_over, move_age, anim_age, nodelay, end_msg, edge_hit>>

\* for laser in player_lasers[:]: update; remove when y <= 1
UpdatePlayerLasers(ls) ==
    SelectSeq(MapSeq(ls, LaserUpdate), LAMBDA l : ~(l.y <= 1))

\* Alien lasers that are kept in the bottom border row and removed only
\* below it; C16 must fail for it.
UpdateAlienLasersLate(ls) ==
    SelectSeq(MapSeq(ls, LaserUpdate), LAMBDA l : ~(l.y > Height - 1))

\* Alien lasers that are moved but never removed; C15 must fail for it.
UpdateAlienLasersKeepAll(ls) == MapSeq(ls, LaserUpdate)

\* for laser in alien_lasers[:]: update; remove when y >= height - 1
UpdateAlienLasers(ls) ==
    SelectSeq(MapSeq(ls, LaserUpdate), LAMBDA l : ~(l.y >= Height - 1))

\* Update lasers.
Lasers ==
    /\ pc = "lasers"
    /\ player_lasers' = UpdatePlayerLasers(player_lasers)
    /\ alien_lasers' = UpdateAlienLasers(alien_lasers)
    /\ pc' = "collide"
    /\ UNCHANGED <<key, iter, player, aliens, alien_dir, score, level, game_over,
                   move_age, anim_age, nodelay, end_msg, edge_hit>>

\* A hit test on aliens that compares the columns only; C7 must fail for it.
FirstHitColumn(l, as) ==
    LET hit == {i \in 1..Len(as) : l.x = as[i].x}
    IN  IF hit = {} THEN 0 ELSE CHOOSE i \in hit : \A j \in hit : i <= j

\* Index of the first alien at the laser's position, 0 when there is none.
FirstHit(l, as) ==
    LET hit == {i \in 1..Len(as) : l.x = as[i].x /\ l.y = as[i].y}
    IN  IF hit = {} THEN 0 ELSE CHOOSE i \in hit : \A j \in hit : i <= j

\* The list without its i-th element.
RemoveAt(s, i) == [j \in 1..(Len(s) - 1) |-> IF j < i THEN s[j] ELSE s[j + 1]]

\* A loop that adds the points for every laser tested, hit or not; C18 must
\* fail for it.
RECURSIVE HitAliensScoreAll(_, _, _, _, _)
HitAliensScoreAll(ls, i, kept, as, sc) ==
    IF i > Len(ls)
    THEN [lasers |-> kept, aliens |-> as, score |-> sc]
    ELSE LET h == FirstHit(ls[i], as)
         IN  IF h = 0
             THEN HitAliensScoreAll(ls, i + 1, Append(kept, ls[i]), as,
                                    sc + KillScore)
             ELSE HitAliensScoreAll(ls, i + 1, kept, RemoveAt(as, h),
                                    sc + KillScore)

\* Player lasers hit aliens: the loop over the snapshot ls of the lasers,
\* from its i-th element on; kept are the lasers still in the list.
RECURSIVE HitAliens(_, _, _, _, _)
HitAliens(ls, i, kept, as, sc) ==
    IF i > Len(ls)
    THEN [lasers |-> kept, aliens |-> as, score |-> sc]
    ELSE LET h == FirstHit(ls[i], as)
         IN  IF h = 0
             THEN HitAliens(ls, i + 1, Append(kept, ls[i]), as, sc)
             ELSE HitAliens(ls, i + 1, kept, RemoveAt(as, h), sc + KillScore)

\* A hit test on the player that compares the columns only; C6 must fail
\* for it.
HitPlayerColumn(ls, p) == \E i \in 1..Len(ls) : ls[i].x = p.x

\* Alien lasers hit player.
HitPlayer(ls, p) == \E i \in 1..Len(ls) : ls[i].x = p.x /\ ls[i].y = p.y

\* Collisions.
Collide ==
    /\ pc = "collide"
    /\ LET r == HitAliens(player_lasers, 1, << >>, aliens, score)
       IN  /\ player_lasers' = r.lasers
           /\ aliens' = r.aliens
           /\ score' = r.score
    /\ game_over' = (game_over \/ HitPlayer(alien_lasers, player))
    /\ pc' = "wave"
    /\ UNCHANGED <<key, iter, player, alien_lasers, alien_dir, level, move_age,
                   anim_age, nodelay, end_msg, edge_hit>>

\* A wave change that keeps the alien lasers; C9 must fail for it.
WaveKeepsLasers ==
    /\ pc = "wave"
    /\ IF aliens = << >>
       THEN /\ level' = level + 1
            /\ aliens' = InitAliens(aliens)
            /\ player_lasers' = << >>
            /\ UNCHANGED alien_lasers
       ELSE UNCHANGED <<level, aliens, player_lasers, alien_lasers>>
    /\ pc' = "draw"
    /\ UNCHANGED <<key, iter, player, alien_dir, score, game_over, move_age,
                   anim_age, nodelay, end_msg, edge_hit>>

\* A step that clears the lasers whether or not the wave is cleared; C10
\* must fail for it.
WaveAlwaysClears ==
    /\ pc = "wave"
    /\ IF aliens = << >>
       THEN /\ level' = level + 1
            /\ aliens' = InitAliens(aliens)
       ELSE UNCHANGED <<level, aliens>>
    /\ player_lasers' = << >>
    /\ alien_lasers' = << >>
    /\ pc' = "draw"
    /\ UNCHANGED <<key, iter, player, alien_dir, score, game_over, move_age,
                   anim_age, nodelay, end_msg, edge_hit>>

\* A step that counts a level in every iteration; C12 must fail for it.
WaveCountsEveryStep ==
    /\ pc = "wave"
    /\ level' = level + 1
    /\ IF aliens = << >>
       THEN /\ aliens' = InitAliens(aliens)
            /\ player_lasers' = << >>
            /\ alien_lasers' = << >>
       ELSE UNCHANGED <<aliens, player_lasers, alien_lasers>>
    /\ pc' = "draw"
    /\ UNCHANGED <<key, iter, player, alien_dir, score, game_over, move_age,
                   anim_age, nodelay, end_msg, edge_hit>>

\* A wave change that counts the level but spawns no aliens; C11 must fail
\* for it.
WaveNoSpawn ==
    /\ pc = "wave"
    /\ IF aliens = << >>
       THEN /\ level' = level + 1
            /\ player_lasers' = << >>
            /\ alien_lasers' = << >>
            /\ UNCHANGED aliens
       ELSE UNCHANGED <<level, aliens, player_lasers, alien_lasers>>
    /\ pc' = "draw"
    /\ UNCHANGED <<key, iter, player, alien_dir, score, game_over, move_age,
                   anim_age, nodelay, end_msg, edge_hit>>

\* Check level cleared.
Wave ==
    /\ pc = "wave"
    /\ IF aliens = << >>
       THEN /\ level' = level + 1
            /\ aliens' = InitAliens(aliens)
            /\ player_lasers' = << >>
            /\ alien_lasers' = << >>
       ELSE UNCHANGED <<level, aliens, player_lasers, alien_lasers>>
    /\ pc' = "draw"
    /\ UNCHANGED <<key, iter, player, alien_dir, score, game_over, move_age,
                   anim_age, nodelay, end_msg, edge_hit>>

\* Draw everything, refresh, time.sleep(0.01): the time dt passes before the
\* clock is read again at the top of the loop.
Draw ==
    /\ pc = "draw"
    /\ \E dt \in Dts :
         /\ move_age' = Age(move_age, dt)
         /\ anim_age' = Age(anim_age, dt)
    /\ pc' = "while"
    /\ UNCHANGED <<key, iter, player, aliens, player_lasers, alien_lasers,
                   alien_dir, score, level, game_over, nodelay, end_msg, edge_hit>>

\* Game over screen: nodelay(False), the message, one blocking getch.
Over ==
    /\ pc = "over"
    /\ nodelay' = FALSE
    /\ end_msg' = TRUE
    /\ pc' = "done"
    /\ UNCHANGED <<key, iter, player, aliens, player_lasers, alien_lasers,
                   alien_dir, score, level, game_over, move_age, anim_age,
                   edge_hit>>

Next ==
    \/ While
    \/ Input
    \/ March
    \/ Anim
    \/ Fire
    \/ Lasers
    \/ Collide
    \/ Wave
    \/ Draw
    \/ Over

Spec == Init /\ [][Next]_vars

\* Four states of a game in progress, each at the top of the loop, the march
\* and the animation having run in the iteration before.  All are
\* reached by play() on a Height x Width screen when no alien fires.  In the
\* first two the player shoots every alien except the two upper ones of the
\* sixth column (53 kills, score 530) and the pair then marches from margin to
\* margin:
\*   - after the sixth edge hit the pair stands at the left margin, heading
\*     right, with the player below it at x = 1;
\*   - one march before the eighth edge hit the pair is at x = 2, heading
\*     left, its lower alien one row above the player's row.
\* In the last two the player shoots every alien except the top one of the
\* sixth column (54 kills, score 540); after the sixth edge hit that alien has
\* crossed the screen and is one march before the right margin, the player
\* waiting in the last column:
\*   - with no laser in flight;
\*   - with a laser that the player fired eight marches earlier and that is
\*     now two rows below the top border.
MidStates ==
    { [player |-> [x |-> 1, y |-> 12],
       aliens |-> << [x |-> 1, y |-> 8, frame |-> 1],
                     [x |-> 1, y |-> 10, frame |-> 1] >>,
       player_lasers |-> << >>,
       alien_dir |-> 1, score |-> 530, edge_hit |-> TRUE],
      [player |-> [x |-> 24, y |-> 12],
       aliens |-> << [x |-> 2, y |-> 9, frame |-> 2],
                     [x |-> 2, y |-> 11, frame |-> 2] >>,
       player_lasers |-> << >>,
       alien_dir |-> -1, score |-> 530, edge_hit |-> FALSE],
      [player |-> [x |-> 46, y |-> 12],
       aliens |-> << [x |-> 45, y |-> 8, frame |-> 1] >>,
       player_lasers |-> << >>,
       alien_dir |-> 1, score |-> 540, edge_hit |-> FALSE],
      [player |-> [x |-> 46, y |-> 12],
       aliens |-> << [x |-> 45, y |-> 8, frame |-> 1] >>,
       player_lasers |-> << [x |-> 46, y |-> 3, dir |-> -1] >>,
       alien_dir |-> 1, score |-> 540, edge_hit |-> FALSE] }

\* The constructed state, or a game in progress.
InitMid ==
    \/ Init
    \/ \E m \in MidStates :
         /\ pc = "while"
         /\ iter = 0
         /\ key = "none"
         /\ player = m.player
         /\ aliens = m.aliens
         /\ player_lasers = m.player_lasers
         /\ alien_lasers = << >>
         /\ alien_dir = m.alien_dir
         /\ score = m.score
         /\ level = 1
         /\ game_over = FALSE
         /\ \E dt \in Dts :
              /\ move_age = dt
              /\ anim_age = dt
         /\ nodelay = TRUE
         /\ end_msg = FALSE
         /\ edge_hit = m.edge_hit

SpecMid == InitMid /\ [][Next]_vars

\* The loop test when iterations keep running: as While, without the count
\* of iterations.  The run is followed through the first LiveLevels levels.
WhileRun ==
    /\ pc = "while"
    /\ IF game_over
       THEN pc' = "over"
       ELSE /\ level <= LiveLevels
            /\ pc' = "input"
    /\ UNCHANGED <<key, iter, player, aliens, player_lasers, alien_lasers,
                   alien_dir, score, level, game_over, move_age, anim_age,
                   nodelay, end_msg, edge_hit>>

\* Keys polled in the runs that are followed to their end: the player
\* neither quits nor acts; the aliens fire as they like and time passes as
\* it likes.
LiveKeys == {"none"}

NextLive ==
    \/ WhileRun
    \/ Input /\ key' \in LiveKeys
    \/ March
    \/ Anim
    \/ Fire
    \/ Lasers
    \/ Collide
    \/ Wave
    \/ Draw
    \/ Over

\* The third state of MidStates one iteration later, the player having
\* fired in that iteration and no march having run in it: the laser is two
\* rows above the player, in the column the alien enters with its next march.
ShotState ==
    [player |-> [x |-> 46, y |-> 12],
     aliens |-> << [x |-> 45, y |-> 8, frame |-> 1] >>,
     player_lasers |-> << [x |-> 46, y |-> 10, dir |-> -1] >>,
     alien_dir |-> 1, score |-> 540, edge_hit |-> FALSE]

\* The constructed state, a game in progress, or the game in progress with
\* the player's laser in flight.
InitLive ==
    \/ InitMid
    \/ /\ pc = "while"
       /\ iter = 0
       /\ key = " "
       /\ player = ShotState.player
       /\ aliens = ShotState.aliens
       /\ player_lasers = ShotState.player_lasers
       /\ alien_lasers = << >>
       /\ alien_dir = ShotState.alien_dir
       /\ score = ShotState.score
       /\ level = 1
       /\ game_over = FALSE
       /\ move_age = LongMs
       /\ anim_age = LongMs
       /\ nodelay = TRUE
       /\ end_msg = FALSE
       /\ edge_hit = ShotState.edge_hit

\* The loop is single-threaded and every section of it returns, so a step
\* that can be taken is taken.
SpecLive == InitLive /\ [][NextLive]_vars /\ WF_vars(NextLive)

\* The march test of an iteration on a fresh wave, for every level up to
\* MaxLevel and every elapsed time since the last march that is a multiple
\* of the sleep, up to LongMs: alien_speed() applied to each level.
InitSpeed ==
    /\ pc = "march"
    /\ iter = 1
    /\ key = "none"
    /\ player = [x |-> Width \div 2, y |-> Height - 2]
    /\ aliens = InitAliens(<< >>)
    /\ player_lasers = << >>
    /\ alien_lasers = << >>
    /\ alien_dir = 1
    /\ level \in 1..MaxLevel
    /\ score = (level - 1) * Rows * Cols * KillScore
    /\ game_over = FALSE
    /\ move_age \in {a \in 0..LongMs : a % SleepMs = 0}
    /\ anim_age = move_age
    /\ nodelay = TRUE
    /\ end_msg = FALSE
    /\ edge_hit = FALSE

NextSpeed == March

SpecSpeed == InitSpeed /\ [][NextSpeed]_vars

TypeOK ==
    /\ pc \in {"while", "input", "march", "anim", "fire", "lasers", "collide",
               "wave", "draw", "over", "done"}
    /\ iter \in 0..MaxIter
    /\ game_over \in BOOLEAN
    /\ alien_dir \in {-1, 1}
    /\ edge_hit \in BOOLEAN

\* =================================================================== claims
FireKeys == {" ", "z"}

\* C1: the player's x is always within 1..Width-2; a left or right key moves
\* it by one, except that a move that would leave the range leaves it at the
\* nearest bound, and no other step changes it.
C1_PlayerClamped ==
    /\ [](player.x >= 1 /\ player.x <= Width - 2)
    /\ [][/\ (pc = "input" /\ key' = "KEY_LEFT")
               => player'.x = (IF player.x - 1 < 1 THEN 1 ELSE player.x - 1)
          /\ (pc = "input" /\ key' = "KEY_RIGHT")
               => player'.x = (IF player.x + 1 > Width - 2 THEN Width - 2
                               ELSE player.x + 1)
          /\ ~(pc = "input" /\ key' \in {"KEY_LEFT", "KEY_RIGHT"})
               => player'.x = player.x]_vars

\* The left key was pressed in the first iteration of the game in progress
\* whose player stands at x = 1, and the player is still at x = 1.
C1_Witness ==
    pc = "march" /\ iter = 1 /\ key = "KEY_LEFT" /\ player.x = 1

\* C2: at every point of the loop at most 3 player lasers are live, and a
\* fire key pressed while 3 are live leaves the list of player lasers as it is.
C2_ShotLimit ==
    /\ [](Len(player_lasers) <= 3)
    /\ [][(pc = "input" /\ key' \in FireKeys /\ Len(player_lasers) = 3)
            => player_lasers' = player_lasers]_vars

\* A fire key has just been handled with 3 lasers live, none of them new
\* (a new laser would be in the row above the player).
C2_Witness ==
    /\ pc = "march"
    /\ key \in FireKeys
    /\ Len(player_lasers) = 3
    /\ \A i \in 1..Len(player_lasers) : player_lasers[i].y < player.y - 1

\* The step that follows each step of the loop body.
C3_After(p) ==
    CASE p = "march" -> "anim"
      [] p = "anim" -> "fire"
      [] p = "fire" -> "lasers"
      [] p = "lasers" -> "collide"
      [] p = "collide" -> "wave"
      [] p = "wave" -> "draw"
      [] p = "draw" -> "while"
      [] p = "while" -> "over"
      [] p = "over" -> "done"
      [] OTHER -> "none"

\* C3: once game_over is set it stays set; the steps of the iteration that
\* set it run on in order, each once, up to the draw; then the loop is left
\* and no further iteration (no input, march, fire, laser or collision step)
\* is started.
C3_GameOverTerminal ==
    [][game_over => /\ game_over'
                    /\ pc' = C3_After(pc)
                    /\ iter' = iter]_vars

\* The loop has been left after a march that landed an alien on the
\* player's row.
C3_Witness ==
    /\ pc = "done"
    /\ game_over
    /\ \E i \in 1..Len(aliens) : aliens[i].y >= player.y
QuitKeys == {"q", "Q"}

\* C4: a quit key polled by a running loop ends the loop with game_over still
\* false and without running any update step of that iteration, and the
\* end-of-game sequence (blocking input, the end message, the wait for a key)
\* is performed only when the loop was left with game_over set.
C4_QuitIsNotGameOver ==
    /\ [][(pc = "input" /\ key' \in QuitKeys)
            => /\ pc' = "over"
               /\ ~game_over'
               /\ UNCHANGED <<player, aliens, player_lasers, alien_lasers,
                              alien_dir, score, level>>]_vars
    /\ []((end_msg \/ ~nodelay) => game_over)

\* C5: an edge-hit descent (the march direction flips) that leaves an alien
\* on or below the player's row sets game_over in that step; and, the screen
\* having at least 13 rows, no iteration starts with game_over unset and an
\* alien on or below the player's row.
C5_LandingEndsGame ==
    /\ [][(/\ pc = "march"
           /\ alien_dir' # alien_dir
           /\ \E i \in 1..Len(aliens') : aliens'[i].y >= player.y)
            => game_over']_vars
    /\ []((Height >= 13 /\ pc \in {"while", "input"} /\ ~game_over)
            => \A i \in 1..Len(aliens) : aliens[i].y < player.y)

\* A march has just set game_over because of an alien that is not the first
\* of the list: the first one is still above the player's row.
C5_Witness ==
    /\ pc = "anim"
    /\ game_over
    /\ aliens[1].y < player.y
    /\ \E i \in 1..Len(aliens) : aliens[i].y >= player.y

\* Number of alien lasers at the player's position.
C6_OnPlayer ==
    Cardinality({i \in 1..Len(alien_lasers) :
                    alien_lasers[i].x = player.x /\ alien_lasers[i].y = player.y})

\* C6: the collision step sets game_over when one or more alien lasers are
\* at exactly the player's position, with the same outcome for one as for
\* several, and leaves game_over as it is when none is; the loop is then left
\* at its next test.
C6_LaserOnPlayerEndsGame ==
    [][/\ pc = "collide"
          => /\ (C6_OnPlayer >= 1 => game_over')
             /\ (C6_OnPlayer = 0 => game_over' = game_over)
             /\ UNCHANGED <<alien_lasers, player, level, alien_dir>>
       /\ (pc = "while" /\ game_over) => pc' = "over"]_vars

\* The collision step has just set game_over with two alien lasers on the
\* player at once.
C6_Witness ==
    pc = "wave" /\ game_over /\ C6_OnPlayer >= 2

\* A laser and an alien at the same position.
C7_Match(l, a) == l.x = a.x /\ l.y = a.y

\* C7: the collision step removes exactly the player lasers that are at the
\* position of a live alien and exactly the aliens that are at the position of
\* a player laser, one alien per laser, and adds 10 to the score for each;
\* every other laser and alien stays in place, in order.
C7_HitRemovesPair ==
    [][pc = "collide" =>
        LET hitL == {i \in 1..Len(player_lasers) :
                        \E j \in 1..Len(aliens) : C7_Match(player_lasers[i], aliens[j])}
            hitA == {j \in 1..Len(aliens) :
                        \E i \in 1..Len(player_lasers) : C7_Match(player_lasers[i], aliens[j])}
        IN  /\ Cardinality(hitA) = Cardinality(hitL)
            /\ player_lasers' = SelectSeq(player_lasers,
                   LAMBDA l : ~\E j \in 1..Len(aliens) : C7_Match(l, aliens[j]))
            /\ aliens' = SelectSeq(aliens,
                   LAMBDA a : ~\E i \in 1..Len(player_lasers) : C7_Match(player_lasers[i], a))
            /\ score' = score + 10 * Cardinality(hitL)]_vars

\* In the first iteration of a game in progress with two aliens and 530
\* points, the collision step has removed one alien and the laser that hit it.
C7_Witness ==
    /\ pc = "wave"
    /\ iter = 1
    /\ score = 540
    /\ Len(aliens) = 1
    /\ player_lasers = << >>

\* C8: a march step moves every alien by alien_dir in x; if and only if some
\* alien then has x <= 1 or x >= Width - 2, alien_dir is negated and every
\* alien goes down one row in that same step; otherwise alien_dir and every y
\* are unchanged.
C8_MarchStep ==
    [][(pc = "march" /\ move_age > AlienSpeed(level)) =>
        LET hit == \E i \in 1..Len(aliens) :
                       \/ aliens[i].x + alien_dir <= 1
                       \/ aliens[i].x + alien_dir >= Width - 2
        IN  /\ Len(aliens') = Len(aliens)
            /\ \A i \in 1..Len(aliens) :
                   /\ aliens'[i].x = aliens[i].x + alien_dir
                   /\ aliens'[i].y = aliens[i].y + (IF hit THEN 1 ELSE 0)
            /\ alien_dir' = (IF hit THEN 0 - alien_dir ELSE alien_dir)]_vars

\* In the first iteration of the game in progress whose pair of aliens was
\* at x = 2 heading left, the march has hit the left margin: the pair is at
\* x = 1, one row down, heading right.
C8_Witness ==
    /\ pc = "anim"
    /\ iter = 1
    /\ alien_dir = 1
    /\ Len(aliens) = 2
    /\ aliens[1].x = 1 /\ aliens[1].y = 10
    /\ aliens[2].x = 1 /\ aliens[2].y = 12

\* C9: the wave-clear step on an empty alien list adds 1 to level, spawns 55
\* aliens and empties both laser lists, leaving the player, the score and
\* game_over as they are; and the alien list becomes empty only in the
\* collision step.
C9_WaveCleared ==
    /\ [][(pc = "wave" /\ aliens = << >>)
            => /\ level' = level + 1
               /\ Len(aliens') = 55
               /\ player_lasers' = << >>
               /\ alien_lasers' = << >>
               /\ UNCHANGED <<player, score, game_over>>]_vars
    /\ [][(aliens # << >> /\ aliens' = << >>) => pc = "collide"]_vars
    /\ [](aliens = << >> => pc = "wave")

\* The wave-clear step has just spawned the second wave.
C9_Witness ==
    /\ pc = "draw"
    /\ level = 2
    /\ Len(aliens) = 55
    /\ score = 550

\* C10: the wave-clear step on a non-empty alien list changes nothing: level,
\* the aliens, both laser lists, the score, alien_dir, the player and
\* game_over are as before.
C10_WaveNoop ==
    [][(pc = "wave" /\ aliens # << >>)
         => UNCHANGED <<level, aliens, player_lasers, alien_lasers, score,
                        alien_dir, player, game_over>>]_vars

\* The wave-clear step has just run on a non-empty alien list with lasers of
\* both sides in flight.
C10_Witness ==
    /\ pc = "draw"
    /\ level = 1
    /\ aliens # << >>
    /\ player_lasers # << >>
    /\ alien_lasers # << >>

\* C11: the alien list is empty only between the collision step and the
\* wave-clear step of one iteration: it is non-empty at the draw step, at the
\* loop test and at the start of every iteration (and at every other point of
\* the loop), and it never holds more than 55 aliens.
C11_EmptyOnlyBeforeWave ==
    /\ pc \in {"draw", "while", "input"} => aliens # << >>
    /\ pc # "wave" => aliens # << >>
    /\ Len(aliens) <= 55

\* The collision step of the first wave has just removed the last alien.
C11_Witness ==
    /\ pc = "wave"
    /\ aliens = << >>
    /\ level = 1
    /\ score = 550

\* C12: level is 1 at the start and never decreases; it changes only in the
\* wave-clear step, on an empty alien list, by exactly +1; score never
\* decreases and is never negative.
C12_LevelScoreMonotone ==
    /\ level = 1
    /\ [](level >= 1 /\ score >= 0)
    /\ [][/\ level' >= level
          /\ score' >= score
          /\ level' # level => pc = "wave" /\ aliens = << >>
          /\ (pc = "wave" /\ aliens = << >>) => level' = level + 1]_vars

\* The loop test is reached after the iteration that cleared the first wave:
\* level is 2 and the score is that of 55 kills.
C12_Witness ==
    /\ pc = "while"
    /\ iter >= 1
    /\ level = 2
    /\ score = 55 * KillScore

\* The interval the claim gives for level lv, in milliseconds.
C13_Interval(lv) ==
    IF 300 - 30 * (lv - 1) > 50 THEN 300 - 30 * (lv - 1) ELSE 50

\* C13: for every level L >= 1 the march interval in milliseconds is
\* max(50, 300 - 30 * (L - 1)): the march step moves the aliens exactly when
\* the time since the last march exceeds it; it is never below 50 and never
\* negative, it is strictly decreasing in L for L = 1..10, and it is 50 for
\* every L >= 10.
C13_MarchInterval ==
    /\ [](/\ AlienSpeed(level) = C13_Interval(level)
          /\ AlienSpeed(level) >= 50
          /\ AlienSpeed(level) >= 0
          /\ level >= 10 => AlienSpeed(level) = 50
          /\ level \in 1..9 => AlienSpeed(level + 1) < AlienSpeed(level))
    /\ [][pc = "march"
            => ((aliens' # aliens) <=> (move_age > C13_Interval(level)))]_vars

\* At a level past the tenth the aliens have marched after 60 ms or more,
\* which no interval above the floor would allow.
C13_Witness ==
    /\ pc = "anim"
    /\ level > 10
    /\ move_age = 0
    /\ aliens[1].x = InitAliens(<< >>)[1].x + 1

\* The positions the claim gives for a wave on a screen Width wide.
C14_Grid ==
    {<<(Width - 44) \div 2 + 4 * c, 2 + 2 * r>> : r \in 0..4, c \in 0..10}

\* The list as holds exactly one alien, in frame 0, at each position of the grid.
C14_IsGrid(as) ==
    /\ Len(as) = 55
    /\ Cardinality(C14_Grid) = 55
    /\ {<<as[i].x, as[i].y>> : i \in 1..Len(as)} = C14_Grid
    /\ \A i, j \in 1..Len(as) :
           i # j => <<as[i].x, as[i].y>> # <<as[j].x, as[j].y>>
    /\ \A i \in 1..Len(as) : as[i].frame = 0

\* C14: every wave spawn, the one of the constructor and each one of the
\* wave-clear step, produces exactly one alien in frame 0 at each of the 55
\* positions x = (Width - 44) div 2 + 4c, y = 2 + 2r (r in 0..4, c in 0..10),
\* whatever the score, the level, the march direction and the last positions
\* of the wave before.
C14_SpawnGrid ==
    /\ []((pc = "while" /\ iter = 0 /\ score = 0) => C14_IsGrid(aliens))
    /\ [][(pc = "wave" /\ aliens = << >>) => C14_IsGrid(aliens')]_vars

\* A second wave has been spawned while the march direction was -1: the last
\* alien of the first wave was shot at the right margin after its edge hit.
C14_Witness ==
    /\ pc = "draw"
    /\ level = 2
    /\ alien_dir = -1
    /\ C14_IsGrid(aliens)

C16_Moved(l) == [x |-> l.x, y |-> l.y + l.dir, dir |-> l.dir]

\* The list new holds, in the order of old, lasers of old moved by one row.
C16_MovedPart(old, new) ==
    /\ Len(new) <= Len(old)
    /\ \E keep \in SUBSET (1..Len(old)) :
           new = SelectSeq([i \in 1..Len(old) |->
                               IF i \in keep THEN C16_Moved(old[i])
                               ELSE [x |-> 0, y |-> 0, dir |-> 0]],
                           LAMBDA l : l.dir # 0)

\* C16: the laser update moves every laser one row in its own direction
\* (player lasers up, alien lasers down, x unchanged), a laser created in the
\* same iteration included, and keeps no player laser in or above the top
\* border row and no alien laser in or below the bottom border row; so at the
\* collision, wave-clear and draw steps every laser is strictly inside the
\* border rows.
C16_LaserUpdate ==
    /\ [][pc = "lasers" =>
            /\ C16_MovedPart(player_lasers, player_lasers')
            /\ C16_MovedPart(alien_lasers, alien_lasers')
            /\ \A i \in 1..Len(player_lasers') : player_lasers'[i].y > 0
            /\ \A i \in 1..Len(alien_lasers') : alien_lasers'[i].y < Height - 1]_vars
    /\ [](\A i \in 1..Len(player_lasers) : player_lasers[i].dir = -1)
    /\ [](\A i \in 1..Len(alien_lasers) : alien_lasers[i].dir = 1)
    /\ [](pc \in {"collide", "wave", "draw"} =>
             /\ \A i \in 1..Len(player_lasers) :
                    player_lasers[i].y > 0 /\ player_lasers[i].y < Height - 1
             /\ \A i \in 1..Len(alien_lasers) :
                    alien_lasers[i].y > 0 /\ alien_lasers[i].y < Height - 1)

\* In the first iteration the player and an alien have both fired, and the
\* laser update has moved both new lasers: the player's from the row above
\* the player to the next one up, the alien's to two rows below the alien.
C16_Witness ==
    /\ pc = "collide"
    /\ iter = 1
    /\ Len(player_lasers) = 1
    /\ player_lasers[1].y = player.y - 2
    /\ Len(alien_lasers) = 1
    /\ \E i \in 1..Len(aliens) : alien_lasers[1].y = aliens[i].y + 2

\* C17: a key that is none of quit, left, right and fire, the no-key value
\* included, changes nothing in the input step: the player, both laser lists,
\* the aliens, the score, the level and game_over are as before, and the
\* iteration goes on to the march.
C17_OtherKeyIgnored ==
    [][(pc = "input" /\ key' \notin {"q", "Q", "KEY_LEFT", "KEY_RIGHT", " ", "z"})
         => /\ UNCHANGED <<player, player_lasers, alien_lasers, aliens, score,
                           level, game_over, alien_dir>>
            /\ pc' = "march"]_vars

\* A key the loop does not test for has been read while a laser of the
\* player was in flight and the player was not at the wall.
C17_Witness ==
    /\ pc = "march"
    /\ key = "other"
    /\ player_lasers # << >>
    /\ player.x < Width - 2

\* C18: in every state score = 10 * (55 * (level - 1) + (55 - number of live
\* aliens)): 10 points for each alien destroyed since the start, and 55
\* aliens destroyed for each level gained.
C18_ScoreAccounting ==
    score = 10 * (55 * (level - 1) + (55 - Len(aliens)))

\* The collision step has just removed the first alien of the session.
C18_Witness ==
    /\ pc = "wave"
    /\ level = 1
    /\ Len(aliens) = 54
    /\ score = 10

\* The march step moves the aliens in this step.
C19_Marches == pc = "march" /\ aliens' # aliens

\* After a march: every alien is within the margins, and the march has not
\* reached both margins at once.
C19_Inside ==
    [][C19_Marches =>
         /\ \A i \in 1..Len(aliens') :
                aliens'[i].x >= 1 /\ aliens'[i].x <= Width - 2
         /\ ~(/\ \E i \in 1..Len(aliens) : aliens[i].x + alien_dir <= 1
              /\ \E i \in 1..Len(aliens) :
                     aliens[i].x + alien_dir >= Width - 2)]_vars

\* C19 as claimed: on a screen 48 wide, at the end of every march step every
\* alien has 1 <= x <= Width - 2, a march step never hits both margins at
\* once, and an edge hit never occurs in two consecutive march steps,
\* whichever aliens have been destroyed and whatever march direction a
\* re-spawned wave inherits.
C19_Containment ==
    /\ C19_Inside
    /\ [][(C19_Marches /\ edge_hit) => ~edge_hit']_vars

\* C19 as amended: as claimed, except that an edge hit does follow an edge
\* hit in the next march step when a wave was re-spawned in between, inherits
\* the march direction -1 and still has a live alien in its leftmost spawn
\* column, one step from the left margin: the first march of that wave hits
\* the left margin.  In no other case do two consecutive march steps both hit
\* an edge.
C19_ContainmentPerWave ==
    /\ C19_Inside
    /\ [][(C19_Marches /\ edge_hit /\ edge_hit')
            => /\ level > 1
               /\ alien_dir = -1
               /\ \A i \in 1..Len(aliens) :
                      <<aliens[i].x, aliens[i].y>> \in C14_Grid
               /\ \E i \in 1..Len(aliens) :
                      aliens[i].x = (Width - 44) \div 2]_vars

\* The first march of the second wave has hit the left margin right after
\* the last march of the first wave hit the right one: the wave is one row
\* down, its first alien at x = 1, heading right.
C19_Witness ==
    /\ pc = "anim"
    /\ level = 2
    /\ edge_hit
    /\ alien_dir = 1
    /\ Len(aliens) = 55
    /\ aliens[1].x = 1
    /\ aliens[1].y = 3

\* The loop is running: game_over is not set and the loop has not been left.
C20_Running == ~game_over /\ pc \notin {"over", "done"}

C20_RowsLeft(as) ==
    player.y - (CHOOSE y \in {as[i].y : i \in 1..Len(as)} :
                   \A i \in 1..Len(as) : as[i].y <= y)

\* Marches the aliens of as, heading in direction d, are from an edge hit.
C20_StepsLeft(as, d) ==
    IF d = 1
    THEN (Width - 2) - (CHOOSE x \in {as[i].x : i \in 1..Len(as)} :
                           \A i \in 1..Len(as) : as[i].x <= x)
    ELSE (CHOOSE x \in {as[i].x : i \in 1..Len(as)} :
             \A i \in 1..Len(as) : as[i].x >= x) - 1

\* Why C20 holds for every key and every number of iterations: within a
\* level, the triple (aliens left, rows left, marches left to the next edge
\* hit) never grows in lexicographic order and gets smaller with every march
\* and every alien shot, and none of the three is ever negative; so a level
\* sees finitely many marches.
C20_Variant ==
    [][(aliens # << >> /\ aliens' # << >> /\ level' = level) =>
         LET n0 == Len(aliens)
             n1 == Len(aliens')
             r0 == C20_RowsLeft(aliens)
             r1 == C20_RowsLeft(aliens')
             s0 == C20_StepsLeft(aliens, alien_dir)
             s1 == C20_StepsLeft(aliens', alien_dir')
             less == \/ n1 < n0
                     \/ n1 = n0 /\ r1 < r0
                     \/ n1 = n0 /\ r1 = r0 /\ s1 < s0
             same == n1 = n0 /\ r1 = r0 /\ s1 = s0
         IN  /\ less \/ same
             /\ (pc = "march" /\ aliens' # aliens) => less
             /\ r1 >= 0 /\ s1 >= 0]_vars

====
